---- MODULE Spec2Model ----
(***************************************************************************)
(* Warehouse-Location-Optimizer: facility_location_problem.py.             *)
(*                                                                         *)
(* The state machine follows main(): load_and_prepare_data builds the      *)
(* inbound and outbound frames, optimize_with_history computes the initial *)
(* guess and the bounds and hands calculate_total_cost to                  *)
(* scipy.optimize.minimize(method="L-BFGS-B"), whose iterations call the   *)
(* objective and, once per accepted iterate, the history callback.         *)
(*                                                                         *)
(* Numbers.  Coordinates are integers in units of 1/Scale degree, so that  *)
(* the means and the mean of means of optimize_with_history are exact.     *)
(* Distances are WGS-84 geodesic lengths in metres and money is in units   *)
(* of 1/(DistanceCostDen * 1000) currency, so that the rate 0.5 is exact.  *)
(* NaN stands for the float not-a-number pandas gives for the mean, min    *)
(* and max of an empty column.                                             *)
(***************************************************************************)
EXTENDS Integers, Sequences, FiniteSets, TLC

VARIABLES
    suppliers,      \* suppliers.csv: sequence of [Supplier_ID, Latitude, Longitude]
    customers,      \* customers.csv: sequence of [Customer_ID, Latitude, Longitude]
    shipments,      \* shipments.csv: sequence of [Shipment_ID, Origin, Destination, Volume_m3]
    inbound,        \* DataFrame [columns, rows] of shipments into the warehouse
    outbound,       \* DataFrame [columns, rows] of shipments out of the warehouse
    pc,             \* "start", "loaded", "solving", "returned", "raised"
    initial_guess,  \* <<lat, lon>> computed by optimize_with_history
    bounds,         \* << <<lat min, lat max>>, <<lon min, lon max>> >>
    x,              \* the solver's current iterate
    fx,             \* the objective at the current iterate
    nit,            \* accepted solver iterations so far
    cost_history,   \* the list the callback appends to
    lastEval,       \* coordinates of the latest call of calculate_total_cost, or None
    lastValue,      \* what that call returned
    result,         \* scipy's OptimizeResult [x, fun, success], or None
    ret,            \* what optimize_with_history returned to main, or None
    error           \* the exception that ended the run, or None

vars == <<suppliers, customers, shipments, inbound, outbound, pc, initial_guess,
          bounds, x, fx, nit, cost_history, lastEval, lastValue, result, ret, error>>

-----------------------------------------------------------------------------
(* Bounds of the model *)

MaxNodes == 2
MaxShipments == 3
MaxIter == 2

(* Program constants *)

Warehouse == 0
DistanceCostNum == 1
DistanceCostDen == 2
VolumeCost == 10

-----------------------------------------------------------------------------
(* Arithmetic helpers *)

Abs(n) == IF n < 0 THEN -n ELSE n
Min2(a, b) == IF a <= b THEN a ELSE b
Max2(a, b) == IF a >= b THEN a ELSE b

RECURSIVE Gcd(_, _)
Gcd(a, b) == IF b = 0 THEN a ELSE Gcd(b, a % b)

RECURSIVE LcmUpTo(_)
LcmUpTo(n) == IF n <= 1 THEN 1 ELSE LET l == LcmUpTo(n - 1) IN (l * n) \div Gcd(l, n)

\* Coordinate units per degree: every mean over at most MaxNodes records and the
\* half of a sum of two such means is a whole number of units.
Scale == 2 * LcmUpTo(MaxNodes)

Deg(d) == d * Scale

None == "None"
NaN == 0 - 999999999

IsNaN(v) == v = NaN

RECURSIVE SumSeq(_)
SumSeq(s) == IF s = <<>> THEN 0 ELSE Head(s) + SumSeq(Tail(s))

RECURSIVE MinSeq(_)
MinSeq(s) == IF Len(s) = 1 THEN Head(s) ELSE Min2(Head(s), MinSeq(Tail(s)))

RECURSIVE MaxSeq(_)
MaxSeq(s) == IF Len(s) = 1 THEN Head(s) ELSE Max2(Head(s), MaxSeq(Tail(s)))

Column(rows, c) == [i \in 1..Len(rows) |-> rows[i][c]]

RECURSIVE SortedSeq(_)
SortedSeq(S) ==
    IF S = {} THEN <<>>
    ELSE LET m == CHOOSE m \in S : \A o \in S : m <= o
         IN  <<m>> \o SortedSeq(S \ {m})

-----------------------------------------------------------------------------
(* The CSV files the run starts from *)

\* Candidate supplier and customer records <<latitude, longitude, volume>>, in
\* degrees and m3; the volume is that of the record's shipment, when it has one.
\* The last two customers lie outside the coordinate domain (longitude 190,
\* latitude 95).
SupplierPoints == << <<50, 10, 100>>, <<40, 0, 10>>, <<60, 0, 100>> >>
CustomerPoints == << <<50, 10, 100>>, <<60, 0, 10>>, <<50, 190, 100>>, <<95, 0, 10>> >>

SupplierRecord(i) ==
    [Supplier_ID |-> i, Latitude |-> Deg(SupplierPoints[i][1]),
     Longitude |-> Deg(SupplierPoints[i][2])]

CustomerRecord(j) ==
    [Customer_ID |-> 100 + j, Latitude |-> Deg(CustomerPoints[j][1]),
     Longitude |-> Deg(CustomerPoints[j][2])]

IndexSets(n, most) == {I \in SUBSET (1..n) : Cardinality(I) <= most}

SupplierFiles ==
    {[k \in 1..Cardinality(I) |-> SupplierRecord(SortedSeq(I)[k])] :
        I \in IndexSets(Len(SupplierPoints), MaxNodes)}

CustomerFiles ==
    {[k \in 1..Cardinality(I) |-> CustomerRecord(SortedSeq(I)[k])] :
        I \in IndexSets(Len(CustomerPoints), MaxNodes)}

\* The shipments a file may list, in file order: one from each known supplier
\* to the warehouse, then one from the warehouse to each known customer.
ShipmentChoices(sup, cus) ==
    [i \in 1..Len(sup) |->
        [Origin |-> sup[i].Supplier_ID, Destination |-> Warehouse,
         Volume_m3 |-> SupplierPoints[sup[i].Supplier_ID][3]]]
    \o
    [j \in 1..Len(cus) |->
        [Origin |-> Warehouse, Destination |-> cus[j].Customer_ID,
         Volume_m3 |-> CustomerPoints[cus[j].Customer_ID - 100][3]]]

\* shipments.csv: at most MaxShipments of them, numbered in file order
ShipmentFiles(sup, cus) ==
    LET all == ShipmentChoices(sup, cus)
    IN  {[k \in 1..Cardinality(I) |->
            [Shipment_ID |-> k,
             Origin |-> all[SortedSeq(I)[k]].Origin,
             Destination |-> all[SortedSeq(I)[k]].Destination,
             Volume_m3 |-> all[SortedSeq(I)[k]].Volume_m3]] :
          I \in IndexSets(Len(all), MaxShipments)}

-----------------------------------------------------------------------------
(* load_and_prepare_data *)

ShipmentColumns == {"Shipment_ID", "Origin", "Destination", "Volume_m3"}

RECURSIVE SelectRows(_, _, _)
\* shipments[shipments[col] == value]
SelectRows(rows, col, value) ==
    IF rows = <<>> THEN <<>>
    ELSE (IF Head(rows)[col] = value THEN <<Head(rows)>> ELSE <<>>)
         \o SelectRows(Tail(rows), col, value)

RECURSIVE MatchRows(_, _, _, _)
\* the rows of `right` whose right_on equals `key`, joined to the left row
MatchRows(left, right, right_on, key) ==
    IF right = <<>> THEN <<>>
    ELSE (IF Head(right)[right_on] = key
          THEN <<left @@ Head(right)>> ELSE <<>>)
         \o MatchRows(left, Tail(right), right_on, key)

RECURSIVE MergeLeft(_, _, _, _)
\* pd.merge(left, right, left_on, right_on, how="left"); an unmatched left row
\* keeps NaN in the right-hand columns
MergeLeft(left, right, left_on, right_on) ==
    IF left = <<>> THEN <<>>
    ELSE LET m == MatchRows(Head(left), right, right_on, Head(left)[left_on])
         IN  (IF m = <<>>
              THEN <<Head(left) @@ [c \in {right_on, "Latitude", "Longitude"} |-> NaN]>>
              ELSE m)
             \o MergeLeft(Tail(left), right, left_on, right_on)

LoadInbound(ship, sup) ==
    [columns |-> ShipmentColumns \cup {"Supplier_ID", "Latitude", "Longitude"},
     rows |-> MergeLeft(SelectRows(ship, "Destination", Warehouse), sup,
                        "Origin", "Supplier_ID")]

LoadOutbound(ship, cus) ==
    [columns |-> ShipmentColumns \cup {"Customer_ID", "Latitude", "Longitude"},
     rows |-> MergeLeft(SelectRows(ship, "Origin", Warehouse), cus,
                        "Destination", "Customer_ID")]

-----------------------------------------------------------------------------
(* geopy.distance.distance, as calculate_total_cost uses it *)

\* geopy's Point accepts finite coordinates with a latitude in [-90, 90]
PointAccepted(p) ==
    /\ ~IsNaN(p[1])
    /\ ~IsNaN(p[2])
    /\ Abs(p[1]) <= Deg(90)

\* geopy's Point wraps a longitude outside [-180, 180] into that range
NormalizeLongitude(lon) ==
    IF Abs(lon) > Deg(180) THEN ((lon + Deg(180)) % Deg(360)) - Deg(180) ELSE lon

\* Metres in n km
Km(n) == n * 1000

\* A coordinate in units of 1/12 degree, the unit of the table below
TableUnits(v) == (v * 12) \div Scale

\* geopy's geodesic on the WGS-84 ellipsoid (a = 6378137 m, f = 1/298.257223563),
\* tabulated for the pairs of points of the runs modelled here.  A row is
\* <<lower latitude, higher latitude, difference of longitudes, metres>>, the
\* angles in units of 1/12 degree and the length rounded to the metre: the
\* length of the geodesic depends on the two latitudes and on the difference
\* of the longitudes alone, and is the same in both directions.
GeodesicRows ==
    {
      <<480, 480, 0, 0>>, <<480, 480, 20, 142321>>, <<480, 480, 30, 213478>>,
      <<480, 480, 40, 284630>>, <<480, 480, 50, 355775>>, <<480, 480, 60, 426913>>,
      <<480, 480, 80, 569160>>, <<480, 480, 90, 640265>>, <<480, 480, 120, 853490>>,
      <<480, 540, 60, 690635>>, <<480, 540, 600, 4081480>>, <<480, 540, 1140, 7353944>>,
      <<480, 560, 400, 2779892>>, <<480, 570, 0, 833306>>, <<480, 570, 30, 857159>>,
      <<480, 570, 90, 1028147>>, <<480, 570, 120, 1157080>>, <<480, 570, 570, 3852494>>,
      <<480, 570, 630, 4226394>>, <<480, 570, 1170, 7360904>>, <<480, 590, 0, 1018634>>,
      <<480, 590, 120, 1289278>>, <<480, 590, 430, 2989393>>, <<480, 600, 0, 1111318>>,
      <<480, 600, 20, 1118982>>, <<480, 600, 30, 1128487>>, <<480, 600, 40, 1141661>>,
      <<480, 600, 50, 1158376>>, <<480, 600, 60, 1178480>>, <<480, 600, 70, 1201801>>,
      <<480, 600, 80, 1228153>>, <<480, 600, 90, 1257343>>, <<480, 600, 100, 1289175>>,
      <<480, 600, 120, 1359995>>, <<480, 600, 600, 4014255>>, <<480, 600, 620, 4133433>>,
      <<480, 600, 660, 4371148>>, <<480, 600, 1140, 7056298>>, <<480, 600, 1160, 7157797>>,
      <<480, 600, 1200, 7357411>>, <<480, 600, 2040, 9985805>>, <<480, 600, 2060, 10000370>>,
      <<480, 600, 2070, 10006666>>, <<480, 600, 2080, 10012303>>, <<480, 600, 2090, 10017280>>,
      <<480, 600, 2100, 10021595>>, <<480, 600, 2120, 10028238>>, <<480, 600, 2130, 10030564>>,
      <<480, 600, 2160, 10033555>>, <<480, 620, 0, 1296726>>, <<480, 620, 120, 1508515>>,
      <<480, 620, 400, 2862434>>, <<480, 620, 420, 2974863>>, <<480, 620, 460, 3201764>>,
      <<480, 630, 0, 1389451>>, <<480, 630, 30, 1402534>>, <<480, 630, 50, 1425493>>,
      <<480, 630, 90, 1503036>>, <<480, 630, 120, 1585658>>, <<480, 630, 400, 2885740>>,
      <<480, 630, 570, 3835572>>, <<480, 630, 590, 3948727>>, <<480, 630, 630, 4175055>>,
      <<480, 630, 1170, 7059335>>, <<480, 650, 0, 1574938>>, <<480, 650, 20, 1579899>>,
      <<480, 650, 120, 1744446>>, <<480, 650, 380, 2837510>>, <<480, 650, 430, 3096011>>,
      <<480, 660, 0, 1667701>>, <<480, 660, 20, 1672298>>, <<480, 660, 60, 1708615>>,
      <<480, 660, 120, 1825704>>, <<480, 660, 430, 3122379>>, <<480, 660, 600, 4013080>>,
      <<480, 660, 1140, 6776175>>, <<480, 675, 30, 1816124>>, <<480, 675, 570, 3869140>>,
      <<480, 680, 50, 1877968>>, <<480, 680, 400, 3039592>>, <<480, 680, 410, 3086719>>,
      <<480, 690, 0, 1946067>>, <<480, 690, 30, 1954399>>, <<480, 690, 120, 2075190>>,
      <<480, 690, 400, 3077309>>, <<480, 690, 420, 3168827>>, <<480, 690, 460, 3355818>>,
      <<480, 690, 570, 3889012>>, <<480, 705, 0, 2085292>>, <<480, 705, 60, 2115233>>,
      <<480, 705, 600, 4055809>>, <<480, 710, 0, 2131706>>, <<480, 710, 20, 2134946>>,
      <<480, 710, 40, 2144634>>, <<480, 710, 80, 2182932>>, <<480, 710, 120, 2245228>>,
      <<480, 710, 380, 3075390>>, <<480, 710, 400, 3159065>>, <<480, 710, 440, 3331236>>,
      <<480, 720, 0, 2224544>>, <<480, 720, 20, 2227578>>, <<480, 720, 30, 2231364>>,
      <<480, 720, 40, 2236653>>, <<480, 720, 50, 2243434>>, <<480, 720, 60, 2251693>>,
      <<480, 720, 80, 2272570>>, <<480, 720, 90, 2285146>>, <<480, 720, 120, 2331123>>,
      <<480, 720, 430, 3326921>>, <<480, 735, 30, 2370015>>, <<480, 735, 50, 2380980>>,
      <<480, 735, 90, 2418940>>, <<480, 735, 570, 3973783>>, <<480, 735, 590, 4060804>>,
      <<480, 735, 630, 4236492>>, <<480, 740, 50, 2426877>>, <<480, 740, 410, 3334167>>,
      <<480, 750, 400, 3345620>>, <<480, 765, 0, 2642456>>, <<480, 765, 20, 2644736>>,
      <<480, 765, 60, 2662892>>, <<480, 765, 600, 4168833>>, <<480, 770, 20, 2691114>>,
      <<480, 770, 380, 3383725>>, <<480, 795, 30, 2925438>>, <<480, 795, 570, 4141984>>,
      <<480, 810, 0, 3060587>>, <<480, 825, 0, 3200009>>, <<480, 840, 30, 3342645>>,
      <<480, 870, 0, 3618395>>, <<480, 870, 20, 3619556>>, <<480, 870, 60, 3628831>>,
      <<480, 900, 30, 3899515>>, <<480, 930, 0, 4176484>>, <<540, 600, 60, 671180>>,
      <<540, 600, 480, 3026920>>, <<540, 600, 1020, 6073115>>, <<540, 600, 1140, 6675824>>,
      <<540, 600, 1680, 8791944>>, <<540, 600, 2100, 9467054>>, <<540, 720, 60, 1702116>>,
      <<540, 720, 600, 3668006>>, <<540, 720, 1140, 6071597>>, <<560, 600, 280, 1761564>>,
      <<560, 600, 1880, 9060401>>, <<560, 720, 400, 2626998>>, <<570, 600, 0, 278012>>,
      <<570, 600, 30, 333256>>, <<570, 600, 90, 617247>>, <<570, 600, 120, 785409>>,
      <<570, 600, 450, 2742441>>, <<570, 600, 510, 3095306>>, <<570, 600, 1050, 6054502>>,
      <<570, 600, 1110, 6347896>>, <<570, 600, 1650, 8457942>>, <<570, 600, 1710, 8617871>>,
      <<570, 600, 2040, 9157735>>, <<570, 600, 2070, 9176314>>, <<570, 600, 2130, 9197587>>,
      <<570, 600, 2160, 9200250>>, <<570, 720, 0, 1391238>>, <<570, 720, 30, 1400723>>,
      <<570, 720, 90, 1474342>>, <<570, 720, 120, 1535773>>, <<570, 720, 570, 3336653>>,
      <<570, 720, 630, 3615558>>, <<570, 720, 1170, 5970896>>, <<590, 600, 0, 92684>>,
      <<590, 600, 120, 728489>>, <<590, 600, 310, 1861085>>, <<590, 600, 1850, 8742164>>,
      <<590, 600, 2040, 8973592>>, <<590, 600, 2160, 9014922>>, <<590, 720, 0, 1205910>>,
      <<590, 720, 120, 1364876>>, <<590, 720, 430, 2568122>>, <<600, 600, 0, 0>>,
      <<600, 600, 30, 179231>>, <<600, 600, 40, 238966>>, <<600, 600, 60, 358412>>,
      <<600, 600, 70, 418119>>, <<600, 600, 80, 477813>>, <<600, 600, 90, 537493>>,
      <<600, 600, 100, 597155>>, <<600, 600, 120, 716423>>, <<600, 600, 480, 2833085>>,
      <<600, 600, 500, 2947996>>, <<600, 600, 540, 3176622>>, <<600, 600, 1020, 5741560>>,
      <<600, 600, 1040, 5838881>>, <<600, 600, 1080, 6030589>>, <<600, 600, 1120, 6218213>>,
      <<600, 600, 1140, 6310427>>, <<600, 600, 1620, 8126503>>, <<600, 600, 1660, 8236477>>,
      <<600, 600, 1680, 8288680>>, <<600, 600, 2040, 8881504>>, <<600, 600, 2060, 8893933>>,
      <<600, 600, 2070, 8899305>>, <<600, 600, 2080, 8904114>>, <<600, 600, 2090, 8908359>>,
      <<600, 600, 2100, 8912039>>, <<600, 600, 2120, 8917704>>, <<600, 600, 2130, 8919687>>,
      <<600, 600, 2160, 8922237>>, <<600, 620, 0, 185408>>, <<600, 620, 120, 727825>>,
      <<600, 620, 280, 1647090>>, <<600, 620, 300, 1762209>>, <<600, 620, 340, 1991987>>,
      <<600, 620, 1820, 8423586>>, <<600, 620, 1860, 8492161>>, <<600, 620, 1880, 8523380>>,
      <<600, 620, 2040, 8697298>>, <<600, 620, 2160, 8736829>>, <<600, 630, 0, 278133>>,
      <<600, 630, 30, 328321>>, <<600, 630, 70, 492950>>, <<600, 630, 90, 592520>>,
      <<600, 630, 120, 750764>>, <<600, 630, 280, 1645192>>, <<600, 630, 450, 2603155>>,
      <<600, 630, 470, 2714798>>, <<600, 630, 510, 2937106>>, <<600, 630, 1050, 5725760>>,
      <<600, 630, 1110, 6000531>>, <<600, 630, 1650, 7962030>>, <<600, 630, 1690, 8062108>>,
      <<600, 630, 1710, 8109402>>, <<600, 630, 1880, 8433901>>, <<600, 630, 2040, 8605181>>,
      <<600, 630, 2070, 8622193>>, <<600, 630, 2090, 8630844>>, <<600, 630, 2130, 8641668>>,
      <<600, 630, 2160, 8644105>>, <<600, 650, 0, 463620>>, <<600, 650, 100, 734888>>,
      <<600, 650, 120, 826368>>, <<600, 650, 260, 1548795>>, <<600, 650, 310, 1819234>>,
      <<600, 650, 1850, 8209537>>, <<600, 650, 1900, 8282800>>, <<600, 650, 2040, 8420920>>,
      <<600, 650, 2060, 8432425>>, <<600, 650, 2160, 8458617>>, <<600, 660, 0, 556383>>,
      <<600, 660, 60, 651433>>, <<600, 660, 100, 792610>>, <<600, 660, 120, 876481>>,
      <<600, 660, 310, 1828252>>, <<600, 660, 480, 2733155>>, <<600, 660, 1020, 5435574>>,
      <<600, 660, 1140, 5963554>>, <<600, 660, 1680, 7787495>>, <<600, 660, 1850, 8120829>>,
      <<600, 660, 2040, 8328777>>, <<600, 660, 2060, 8340093>>, <<600, 660, 2100, 8356573>>,
      <<600, 660, 2160, 8365854>>, <<600, 675, 90, 856770>>, <<600, 675, 450, 2569381>>,
      <<600, 675, 1710, 7729390>>, <<600, 675, 2070, 8206343>>, <<600, 680, 70, 836855>>,
      <<600, 680, 280, 1711081>>, <<600, 680, 290, 1760387>>, <<600, 680, 1870, 7972770>>,
      <<600, 680, 1880, 7986708>>, <<600, 680, 2090, 8168087>>, <<600, 690, 0, 834749>>,
      <<600, 690, 90, 969052>>, <<600, 690, 120, 1061682>>, <<600, 690, 280, 1738548>>,
      <<600, 690, 300, 1833862>>, <<600, 690, 340, 2027607>>, <<600, 690, 450, 2572298>>,
      <<600, 690, 1710, 7603049>>, <<600, 690, 1820, 7808263>>, <<600, 690, 1860, 7869472>>,
      <<600, 690, 1880, 7897323>>, <<600, 690, 2040, 8052304>>, <<600, 690, 2070, 8067683>>,
      <<600, 690, 2160, 8087488>>, <<600, 705, 60, 1026035>>, <<600, 705, 120, 1168158>>,
      <<600, 705, 480, 2726610>>, <<600, 705, 1680, 7413551>>, <<600, 705, 2040, 7914045>>,
      <<600, 705, 2100, 7939699>>, <<600, 710, 0, 1020388>>, <<600, 710, 40, 1042565>>,
      <<600, 710, 80, 1106386>>, <<600, 710, 100, 1151889>>, <<600, 710, 120, 1205124>>,
      <<600, 710, 260, 1720198>>, <<600, 710, 280, 1806275>>, <<600, 710, 320, 1983518>>,
      <<600, 710, 1840, 7663158>>, <<600, 710, 1880, 7718621>>, <<600, 710, 1900, 7743674>>,
      <<600, 710, 2040, 7867956>>, <<600, 710, 2060, 7878301>>, <<600, 710, 2080, 7886772>>,
      <<600, 710, 2120, 7898078>>, <<600, 710, 2160, 7901849>>, <<600, 720, 0, 1113226>>,
      <<600, 720, 20, 1118231>>, <<600, 720, 30, 1124455>>, <<600, 720, 40, 1133111>>,
      <<600, 720, 50, 1144141>>, <<600, 720, 60, 1157477>>, <<600, 720, 70, 1173037>>,
      <<600, 720, 80, 1190733>>, <<600, 720, 90, 1210468>>, <<600, 720, 100, 1232141>>,
      <<600, 720, 120, 1280889>>, <<600, 720, 310, 1972790>>, <<600, 720, 600, 3295031>>,
      <<600, 720, 620, 3387841>>, <<600, 720, 660, 3572925>>, <<600, 720, 1140, 5639256>>,
      <<600, 720, 1160, 5715872>>, <<600, 720, 1200, 5866116>>, <<600, 720, 1850, 7589158>>,
      <<600, 720, 2040, 7775774>>, <<600, 720, 2060, 7785919>>, <<600, 720, 2070, 7790302>>,
      <<600, 720, 2080, 7794226>>, <<600, 720, 2090, 7797690>>, <<600, 720, 2100, 7800692>>,
      <<600, 720, 2120, 7805313>>, <<600, 720, 2130, 7806931>>, <<600, 720, 2160, 7809012>>,
      <<600, 735, 30, 1262131>>, <<600, 735, 70, 1304031>>, <<600, 735, 90, 1336578>>,
      <<600, 735, 450, 2623298>>, <<600, 735, 470, 2711290>>, <<600, 735, 510, 2888543>>,
      <<600, 735, 1650, 7102169>>, <<600, 735, 1690, 7185768>>, <<600, 735, 1710, 7225239>>,
      <<600, 735, 2070, 7651585>>, <<600, 735, 2090, 7658751>>, <<600, 735, 2130, 7667715>>,
      <<600, 740, 70, 1348066>>, <<600, 740, 290, 1974242>>, <<600, 740, 1870, 7438340>>,
      <<600, 740, 2090, 7612434>>, <<600, 750, 280, 1986264>>, <<600, 750, 1880, 7361554>>,
      <<600, 765, 60, 1560027>>, <<600, 765, 100, 1610044>>, <<600, 765, 120, 1643503>>,
      <<600, 765, 480, 2810075>>, <<600, 765, 1680, 6918486>>, <<600, 765, 2040, 7360906>>,
      <<600, 765, 2060, 7370122>>, <<600, 765, 2100, 7383542>>, <<600, 770, 100, 1653216>>,
      <<600, 770, 260, 2031875>>, <<600, 770, 1900, 7205310>>, <<600, 770, 2060, 7323916>>,
      <<600, 795, 90, 1859893>>, <<600, 795, 450, 2783700>>, <<600, 795, 1710, 6725021>>,
      <<600, 795, 2070, 7096572>>, <<600, 810, 120, 2027355>>, <<600, 810, 2040, 6946004>>,
      <<600, 825, 120, 2158102>>, <<600, 825, 2040, 6807707>>, <<600, 840, 90, 2263090>>,
      <<600, 840, 2070, 6680209>>, <<600, 870, 60, 2519357>>, <<600, 870, 100, 2541011>>,
      <<600, 870, 120, 2555769>>, <<600, 870, 2040, 6392871>>, <<600, 870, 2060, 6399675>>,
      <<600, 870, 2100, 6409582>>, <<600, 900, 90, 2807578>>, <<600, 900, 2070, 6125028>>,
      <<600, 930, 120, 3094346>>, <<600, 930, 2040, 5840014>>, <<620, 720, 0, 927817>>,
      <<620, 720, 120, 1116957>>, <<620, 720, 400, 2254277>>, <<620, 720, 420, 2346254>>,
      <<620, 720, 460, 2531234>>, <<630, 720, 0, 835093>>, <<630, 720, 30, 849193>>,
      <<630, 720, 50, 873691>>, <<630, 720, 90, 954427>>, <<630, 720, 120, 1037657>>,
      <<630, 720, 400, 2199304>>, <<630, 720, 570, 2988146>>, <<630, 720, 590, 3080664>>,
      <<630, 720, 630, 3264967>>, <<630, 720, 1170, 5540479>>, <<650, 720, 0, 649606>>,
      <<650, 720, 20, 657365>>, <<650, 720, 120, 886798>>, <<650, 720, 380, 2004235>>,
      <<650, 720, 430, 2236405>>, <<660, 720, 0, 556843>>, <<660, 720, 20, 565690>>,
      <<660, 720, 60, 631995>>, <<660, 720, 120, 816680>>, <<660, 720, 430, 2189554>>,
      <<660, 720, 600, 2973717>>, <<660, 720, 1140, 5223203>>, <<675, 720, 30, 442813>>,
      <<675, 720, 570, 2767815>>, <<680, 720, 50, 444140>>, <<680, 720, 400, 1965610>>,
      <<680, 720, 410, 2011988>>, <<690, 720, 0, 278477>>, <<690, 720, 30, 313788>>,
      <<690, 720, 120, 641547>>, <<690, 720, 400, 1928518>>, <<690, 720, 420, 2020834>>,
      <<690, 720, 460, 2204733>>, <<690, 720, 570, 2703990>>, <<705, 720, 0, 139252>>,
      <<705, 720, 60, 316414>>, <<705, 720, 600, 2777796>>, <<710, 720, 0, 92838>>,
      <<710, 720, 20, 132228>>, <<710, 720, 40, 209940>>, <<710, 720, 80, 387755>>,
      <<710, 720, 120, 572004>>, <<710, 720, 380, 1774431>>, <<710, 720, 400, 1865629>>,
      <<710, 720, 440, 2047138>>, <<720, 720, 0, 0>>, <<720, 720, 20, 92998>>,
      <<720, 720, 30, 139492>>, <<720, 720, 40, 185980>>, <<720, 720, 50, 232462>>,
      <<720, 720, 60, 278934>>, <<720, 720, 80, 371843>>, <<720, 720, 90, 418276>>,
      <<720, 720, 120, 557469>>, <<720, 720, 430, 1974912>>, <<720, 735, 30, 195241>>,
      <<720, 735, 50, 267188>>, <<720, 735, 90, 433270>>, <<720, 735, 570, 2546523>>,
      <<720, 735, 590, 2631356>>, <<720, 735, 630, 2799688>>, <<720, 740, 50, 292904>>,
      <<720, 740, 410, 1845922>>, <<720, 750, 400, 1790163>>, <<720, 765, 0, 417912>>,
      <<720, 765, 20, 426975>>, <<720, 765, 60, 493493>>, <<720, 765, 600, 2593664>>,
      <<720, 770, 20, 472416>>, <<720, 770, 380, 1698689>>, <<720, 795, 30, 707829>>,
      <<720, 795, 570, 2428771>>, <<720, 810, 0, 836044>>, <<720, 825, 0, 975465>>,
      <<720, 840, 30, 1120894>>, <<720, 870, 0, 1393851>>, <<720, 870, 20, 1395732>>,
      <<720, 870, 60, 1410677>>, <<720, 900, 30, 1675909>>, <<720, 930, 0, 1951940>>
    }

Geodesic ==
    [k \in {<<r[1], r[2], r[3]>> : r \in GeodesicRows} |->
        (CHOOSE r \in GeodesicRows : <<r[1], r[2], r[3]>> = k)[4]]

\* distance(a, b).km in metres (units of 1/1000 km)
Distance_km(a, b) ==
    LET d == Abs(NormalizeLongitude(a[2]) - NormalizeLongitude(b[2]))
        dlon == Min2(d, Deg(360) - d)
    IN  Geodesic[<<TableUnits(Min2(a[1], b[1])), TableUnits(Max2(a[1], b[1])),
                   TableUnits(dlon)>>]

\* (distance_km * distance_cost) + (volume * volume_cost) in money units, the
\* rate per km given as distance_cost_num / DistanceCostDen
ShipmentCost(distance_km, volume, distance_cost_num, volume_cost) ==
    (distance_km * distance_cost_num) + Km(volume * volume_cost * DistanceCostDen)

\* what 1 unit of currency is in money units
Currency(n) == Km(n * DistanceCostDen)

-----------------------------------------------------------------------------
(* calculate_total_cost *)

RowPoint(row) == <<row["Latitude"], row["Longitude"]>>

\* frame["Distance_km"] = frame.apply(lambda row: distance(...).km, axis=1)
\* The lambda raises ValueError when geopy rejects a point, and then nothing
\* is assigned.  On a frame without rows apply returns a copy of the frame, not
\* a column, and assigning a frame of several columns to one column raises
\* ValueError.
AssignDistance(frame, warehouse_coords) ==
    IF frame.rows = <<>>
    THEN [raised |-> TRUE, frame |-> frame]
    ELSE IF \E i \in 1..Len(frame.rows) :
                ~PointAccepted(RowPoint(frame.rows[i])) \/ ~PointAccepted(warehouse_coords)
    THEN [raised |-> TRUE, frame |-> frame]
    ELSE [raised |-> FALSE,
          frame |-> [columns |-> frame.columns \cup {"Distance_km"},
                     rows |-> [i \in 1..Len(frame.rows) |->
                         [c \in (DOMAIN frame.rows[i]) \cup {"Distance_km"} |->
                             IF c = "Distance_km"
                             THEN Distance_km(RowPoint(frame.rows[i]), warehouse_coords)
                             ELSE frame.rows[i][c]]]]]

\* frame["Cost"] = frame["Distance_km"] * distance_cost + frame["Volume_m3"] * volume_cost
AssignCost(frame, distance_cost_num, volume_cost) ==
    [columns |-> frame.columns \cup {"Cost"},
     rows |-> [i \in 1..Len(frame.rows) |->
         [c \in (DOMAIN frame.rows[i]) \cup {"Cost"} |->
             IF c = "Cost"
             THEN ShipmentCost(frame.rows[i]["Distance_km"], frame.rows[i]["Volume_m3"],
                               distance_cost_num, volume_cost)
             ELSE frame.rows[i][c]]]]

\* One call: [raised, value, inbound, outbound], the frames as the call leaves them.
calculate_total_cost(warehouse_coords, inb, outb, distance_cost_num, volume_cost) ==
    LET din == AssignDistance(inb, warehouse_coords)
    IN  IF din.raised
        THEN [raised |-> TRUE, value |-> None, inbound |-> inb, outbound |-> outb]
        ELSE LET inb2 == AssignCost(din.frame, distance_cost_num, volume_cost)
                 dout == AssignDistance(outb, warehouse_coords)
             IN  IF dout.raised
                 THEN [raised |-> TRUE, value |-> None, inbound |-> inb2, outbound |-> outb]
                 ELSE LET outb2 == AssignCost(dout.frame, distance_cost_num, volume_cost)
                      IN  [raised |-> FALSE,
                           value |-> SumSeq(Column(inb2.rows, "Cost"))
                                     + SumSeq(Column(outb2.rows, "Cost")),
                           inbound |-> inb2, outbound |-> outb2]

-----------------------------------------------------------------------------
(* optimize_with_history: the initial guess and the bounds *)

\* Series.mean(): NaN on an empty column
Mean(col) == IF col = <<>> THEN NaN ELSE SumSeq(col) \div Len(col)

\* Series.min() and Series.max(): NaN on an empty column
ColMin(col) == IF col = <<>> THEN NaN ELSE MinSeq(col)
ColMax(col) == IF col = <<>> THEN NaN ELSE MaxSeq(col)

\* (a + b) / 2 on floats
HalfSum(a, b) == IF IsNaN(a) \/ IsNaN(b) THEN NaN ELSE (a + b) \div 2

InitialGuess(sup, cus) ==
    << HalfSum(Mean(Column(sup, "Latitude")), Mean(Column(cus, "Latitude"))),
       HalfSum(Mean(Column(sup, "Longitude")), Mean(Column(cus, "Longitude"))) >>

\* Bounds widened by the customers
Bounds_WithCustomers(sup, cus) ==
    << <<ColMin(Column(sup, "Latitude") \o Column(cus, "Latitude")),
         ColMax(Column(sup, "Latitude") \o Column(cus, "Latitude"))>>,
       <<ColMin(Column(sup, "Longitude") \o Column(cus, "Longitude")),
         ColMax(Column(sup, "Longitude") \o Column(cus, "Longitude"))>> >>

Bounds(sup, cus) ==
    << <<ColMin(Column(sup, "Latitude")), ColMax(Column(sup, "Latitude"))>>,
       <<ColMin(Column(sup, "Longitude")), ColMax(Column(sup, "Longitude"))>> >>

-----------------------------------------------------------------------------
(* scipy.optimize.minimize(method="L-BFGS-B", bounds=..., callback=...) *)

\* np.clip(v, lo, hi)
Clip(v, lo, hi) ==
    IF IsNaN(v) \/ IsNaN(lo) \/ IsNaN(hi) THEN NaN ELSE Min2(Max2(v, lo), hi)

\* Where the solver first evaluates the objective.  minimize takes a variable
\* whose bounds are equal out of the problem and gives the objective the bound
\* in its place, whatever x0 is; L-BFGS-B projects the others into the bounds.
StartCoordinate(v, lo, hi) ==
    IF ~IsNaN(lo) /\ lo = hi THEN lo ELSE Clip(v, lo, hi)

StartPoint(guess, b) ==
    << StartCoordinate(guess[1], b[1][1], b[1][2]),
       StartCoordinate(guess[2], b[2][1], b[2][2]) >>

GridLatitudes ==
    {Deg(SupplierPoints[i][1]) : i \in 1..Len(SupplierPoints)}
    \cup {Deg(CustomerPoints[j][1]) : j \in 1..Len(CustomerPoints)}

GridLongitudes ==
    {Deg(SupplierPoints[i][2]) : i \in 1..Len(SupplierPoints)}
    \cup {Deg(CustomerPoints[j][2]) : j \in 1..Len(CustomerPoints)}

\* The points the solver may try: the projected starting point and the grid
\* points of the feasible box (the solver keeps every trial point feasible).
TrialPoints(start, b) ==
    {<<la, lo>> :
        la \in {start[1]} \cup
               (IF IsNaN(start[1]) THEN {}
                ELSE {g \in GridLatitudes : b[1][1] <= g /\ g <= b[1][2]}),
        lo \in {start[2]} \cup
               (IF IsNaN(start[2]) THEN {}
                ELSE {g \in GridLongitudes : b[2][1] <= g /\ g <= b[2][2]})}

-----------------------------------------------------------------------------
(* The run *)

Init ==
    /\ suppliers \in SupplierFiles
    /\ customers \in CustomerFiles
    /\ shipments \in ShipmentFiles(suppliers, customers)
    /\ inbound = None
    /\ outbound = None
    /\ pc = "start"
    /\ initial_guess = None
    /\ bounds = None
    /\ x = None
    /\ fx = None
    /\ nit = 0
    /\ cost_history = <<>>
    /\ lastEval = None
    /\ lastValue = None
    /\ result = None
    /\ ret = None
    /\ error = None

\* main, line 169: load_and_prepare_data()
Load ==
    /\ pc = "start"
    /\ inbound' = LoadInbound(shipments, suppliers)
    /\ outbound' = LoadOutbound(shipments, customers)
    /\ pc' = "loaded"
    /\ UNCHANGED <<suppliers, customers, shipments, initial_guess, bounds, x, fx, nit,
                   cost_history, lastEval, lastValue, result, ret, error>>

\* what optimize_with_history hands back to main
Returned(res, history) ==
    [optimal_coords |-> res.x, optimal_cost |-> res.fun, cost_history |-> history]

\* fun=lambda coords: calculate_total_cost(coords, inbound, outbound)
objective(coords, inb, outb) ==
    calculate_total_cost(coords, inb, outb, DistanceCostNum, VolumeCost)

\* callback putting the new cost in front
callback_Prepend(history, xk, inb, outb) ==
    LET c == calculate_total_cost(xk, inb, outb, DistanceCostNum, VolumeCost)
    IN  [raised |-> c.raised, value |-> c.value, inbound |-> c.inbound,
         outbound |-> c.outbound,
         cost_history |-> IF c.raised THEN history ELSE <<c.value>> \o history]

\* callback recording the cost at a rate of 1.0 per km
callback_OtherRate(history, xk, inb, outb) ==
    LET c == calculate_total_cost(xk, inb, outb, 2 * DistanceCostNum, VolumeCost)
    IN  [raised |-> c.raised, value |-> c.value, inbound |-> c.inbound,
         outbound |-> c.outbound,
         cost_history |-> IF c.raised THEN history ELSE Append(history, c.value)]

\* the history callback: cost_history.append(calculate_total_cost(xk, inbound, outbound))
\* [raised, value, inbound, outbound, cost_history] as the call leaves them
callback(history, xk, inb, outb) ==
    LET c == calculate_total_cost(xk, inb, outb, DistanceCostNum, VolumeCost)
    IN  [raised |-> c.raised, value |-> c.value, inbound |-> c.inbound,
         outbound |-> c.outbound,
         cost_history |-> IF c.raised THEN history ELSE Append(history, c.value)]

\* optimize_with_history up to the solver's first evaluation of the objective,
\* at the starting point projected into the bounds
StartSolver ==
    /\ pc = "loaded"
    /\ LET guess == InitialGuess(suppliers, customers)
           b == Bounds(suppliers, customers)
           start == StartPoint(guess, b)
       IN  \E r \in {objective(start, inbound, outbound)} :
             /\ initial_guess' = guess
             /\ bounds' = b
             /\ x' = start
             /\ lastEval' = start
             /\ lastValue' = r.value
             /\ inbound' = r.inbound
             /\ outbound' = r.outbound
             /\ fx' = r.value
             /\ pc' = IF r.raised THEN "raised" ELSE "solving"
             /\ error' = IF r.raised THEN "ValueError" ELSE None
    /\ UNCHANGED <<suppliers, customers, shipments, nit, cost_history, result, ret>>

\* the solver evaluates the objective at a trial point it does not accept
\* (a finite-difference probe, a rejected line-search step)
SolverEval ==
    /\ pc = "solving"
    /\ nit < MaxIter
    /\ \E p \in TrialPoints(x, bounds) :
         \E r \in {objective(p, inbound, outbound)} :
           /\ lastEval' = p
           /\ lastValue' = r.value
           /\ inbound' = r.inbound
           /\ outbound' = r.outbound
           /\ pc' = IF r.raised THEN "raised" ELSE "solving"
           /\ error' = IF r.raised THEN "ValueError" ELSE None
    /\ UNCHANGED <<suppliers, customers, shipments, initial_guess, bounds, x, fx, nit,
                   cost_history, result, ret>>

\* an accepted iteration: the line search found a feasible point with a lower
\* objective, it becomes the iterate, and the callback records its cost
SolverIterate ==
    /\ pc = "solving"
    /\ nit < MaxIter
    /\ \E p \in TrialPoints(x, bounds) :
         \E r \in {objective(p, inbound, outbound)} :
           /\ ~r.raised
           /\ r.value < fx
           /\ \E c \in {callback(cost_history, p, r.inbound, r.outbound)} :
                /\ ~c.raised
                /\ x' = p
                /\ fx' = r.value
                /\ nit' = nit + 1
                /\ cost_history' = c.cost_history
                /\ lastEval' = p
                /\ lastValue' = c.value
                /\ inbound' = c.inbound
                /\ outbound' = c.outbound
    /\ UNCHANGED <<suppliers, customers, shipments, initial_guess, bounds, pc,
                   result, ret, error>>

\* the solver ends and optimize_with_history returns (line 160)
Finish(success) ==
    /\ result' = [x |-> x, fun |-> fx, success |-> success]
    /\ ret' = Returned(result', cost_history)
    /\ pc' = "returned"
    /\ UNCHANGED <<suppliers, customers, shipments, inbound, outbound, initial_guess,
                   bounds, x, fx, nit, cost_history, lastEval, lastValue, error>>

\* the solver's convergence test is met
SolverConverge ==
    /\ pc = "solving"
    /\ nit < MaxIter
    /\ Finish(TRUE)

\* the iteration budget is used up
SolverExhaust ==
    /\ pc = "solving"
    /\ nit >= MaxIter
    /\ Finish(FALSE)

Next ==
    \/ Load
    \/ StartSolver
    \/ SolverEval
    \/ SolverIterate
    \/ SolverConverge
    \/ SolverExhaust

Spec == Init /\ [][Next]_vars

-----------------------------------------------------------------------------
(* Reference definitions the properties are stated with *)

\* calculate_total_cost has been called at least once
ObjectiveCalled == pc \notin {"start", "loaded"}

\* the latest call of calculate_total_cost returned a value
LastCallReturned == pc \in {"solving", "returned"}

\* the fixed node of a shipment: its supplier or its customer
ShipmentNode(sh) ==
    IF sh.Destination = Warehouse
    THEN CHOOSE n \in {suppliers[i] : i \in 1..Len(suppliers)} : n.Supplier_ID = sh.Origin
    ELSE CHOOSE n \in {customers[j] : j \in 1..Len(customers)} : n.Customer_ID = sh.Destination

\* the sum over the shipments k..Len(shipments) of distance * 0.5 + volume * 10
RECURSIVE ExpectedCostFrom(_, _)
ExpectedCostFrom(k, p) ==
    IF k > Len(shipments) THEN 0
    ELSE LET n == ShipmentNode(shipments[k])
         IN  Distance_km(<<n.Latitude, n.Longitude>>, p) * DistanceCostNum
             + Km(shipments[k].Volume_m3 * VolumeCost * DistanceCostDen)
             + ExpectedCostFrom(k + 1, p)

ExpectedTotalCost(p) == ExpectedCostFrom(1, p)

\* the box spanned by the suppliers alone
SupplierLatitudes == {suppliers[i].Latitude : i \in 1..Len(suppliers)}
SupplierLongitudes == {suppliers[i].Longitude : i \in 1..Len(suppliers)}

InSupplierBox(p) ==
    /\ ~IsNaN(p[1]) /\ ~IsNaN(p[2])
    /\ \E lo \in SupplierLatitudes : lo <= p[1]
    /\ \E hi \in SupplierLatitudes : p[1] <= hi
    /\ \E lo \in SupplierLongitudes : lo <= p[2]
    /\ \E hi \in SupplierLongitudes : p[2] <= hi

\* the point of the supplier box nearest to p, axis by axis
ProjectCoordinate(v, S) ==
    IF \A s \in S : v < s THEN CHOOSE m \in S : \A s \in S : m <= s
    ELSE IF \A s \in S : v > s THEN CHOOSE m \in S : \A s \in S : m >= s
    ELSE v

ProjectToSupplierBox(p) ==
    << ProjectCoordinate(p[1], SupplierLatitudes),
       ProjectCoordinate(p[2], SupplierLongitudes) >>

EmptyInput ==
    \/ suppliers = <<>>
    \/ customers = <<>>
    \/ shipments = <<>>

CoordinateInDomain(rec) ==
    /\ Abs(rec.Latitude) <= Deg(90)
    /\ Abs(rec.Longitude) <= Deg(180)

ShipsBothWays ==
    /\ \E k \in 1..Len(shipments) : shipments[k].Destination = Warehouse
    /\ \E k \in 1..Len(shipments) : shipments[k].Origin = Warehouse

InvalidRecord ==
    \/ \E i \in 1..Len(suppliers) : ~CoordinateInDomain(suppliers[i])
    \/ \E j \in 1..Len(customers) : ~CoordinateInDomain(customers[j])

-----------------------------------------------------------------------------
(* C1: every point at which calculate_total_cost is evaluated, and every
   iterate handed to the history callback, lies in the box spanned by the
   suppliers' latitudes and longitudes (there is such a box once there is a
   supplier). *)
C1_EvaluatedInSupplierBox ==
    ObjectiveCalled /\ suppliers # <<>> => InSupplierBox(lastEval) /\ InSupplierBox(x)

\* What holds of the bounds: in a run with suppliers and customers every
\* evaluation and every iterate lies in the supplier box.
EvaluatedInSupplierBoxWithCustomers ==
    ObjectiveCalled /\ suppliers # <<>> /\ customers # <<>> =>
        InSupplierBox(lastEval) /\ InSupplierBox(x)

(* C2: a call of calculate_total_cost that returns leaves the inbound and
   outbound frames as they were at load time: the same columns and the same
   values. *)
C2_FramesUnchanged ==
    LastCallReturned =>
        /\ inbound = LoadInbound(shipments, suppliers)
        /\ outbound = LoadOutbound(shipments, customers)

(* C3: with no suppliers, no customers or no shipments the run fails with
   InsufficientData before the solver starts: the objective is never called
   and nothing is returned. *)
C3_InsufficientDataRaised ==
    EmptyInput =>
        \/ pc \in {"start", "loaded"}
        \/ pc = "raised" /\ error = "InsufficientData" /\ ~ObjectiveCalled

(* C4: the cost history is append-only and ordered by iteration: a step of
   the run either leaves it alone, or is an accepted iteration and appends
   exactly one entry, the objective at the new iterate; its length is the
   number of accepted iterations. *)
C4_HistoryAppendOnly ==
    [][ /\ nit' \in {nit, nit + 1}
        /\ nit' = nit => cost_history' = cost_history
        /\ nit' = nit + 1 => cost_history' = Append(cost_history, ExpectedTotalCost(x'))
        /\ Len(cost_history') = nit'
      ]_vars

C4_Witness ==
    /\ Len(cost_history) >= 2
    /\ cost_history[1] # cost_history[2]

(* C5: for every candidate and every pair of inbound and outbound sets a
   call of calculate_total_cost returns the sum over every shipment of
   distance(node, candidate) * 0.5 + volume * 10.  Stated of the runs that
   have suppliers, customers and shipments, all in the coordinate domain. *)
C5_TotalCostIsSum ==
    ObjectiveCalled /\ ~EmptyInput /\ ~InvalidRecord =>
        /\ LastCallReturned
        /\ lastValue = ExpectedTotalCost(lastEval)

\* What holds of calculate_total_cost: a call that returns, returns that sum.
ReturnedCostIsSum ==
    LastCallReturned => lastValue = ExpectedTotalCost(lastEval)

\* one supplier and one customer at (50, 10), one shipment of volume 100 each way
SinglePointScenario ==
    /\ suppliers = <<SupplierRecord(1)>>
    /\ customers = <<CustomerRecord(1)>>
    /\ Len(shipments) = 2

(* C6: in the single-point scenario optimize_with_history returns the location
   (50, 10), the cost 2000 and a cost history of at least one entry. *)
C6_SinglePointResult ==
    SinglePointScenario /\ pc = "returned" =>
        /\ ret.optimal_coords = <<Deg(50), Deg(10)>>
        /\ ret.optimal_cost = Currency(2000)
        /\ Len(ret.cost_history) >= 1

(* C7: when the solver stops on its iteration budget, optimize_with_history
   returns the best iterate and its cost and marks the result as not
   converged. *)
C7_NonConvergenceMarked ==
    pc = "returned" /\ ~result.success =>
        /\ ret.optimal_coords = result.x
        /\ ret.optimal_cost = result.fun
        /\ "converged" \in DOMAIN ret
        /\ ret.converged = FALSE

(* C8: with a supplier or customer record outside the coordinate domain the
   run fails with InvalidCoordinate before any optimization work: the
   objective is never called, the history stays empty, nothing is returned.
   Stated of the runs that ship both ways, which no missing data ends. *)
C8_InvalidCoordinateRaised ==
    InvalidRecord /\ ShipsBothWays =>
        \/ pc \in {"start", "loaded"}
        \/ /\ pc = "raised"
           /\ error = "InvalidCoordinate"
           /\ ~ObjectiveCalled
           /\ cost_history = <<>>

(* C9 as claimed: the last cost of a non-empty history is at most the
   objective at the initial guess, the midpoint of the two mean locations.
   Stated of the runs whose records all lie in the coordinate domain. *)
C9_LastCostBelowInitialGuess ==
    cost_history # <<>> /\ ~InvalidRecord =>
        cost_history[Len(cost_history)] <= ExpectedTotalCost(initial_guess)

(* C9 as amended: the last cost of a non-empty history is at most the
   objective at the initial guess projected into the supplier box (the
   initial guess itself when it lies in the box). *)
C9_LastCostBelowProjectedGuess ==
    cost_history # <<>> =>
        cost_history[Len(cost_history)]
            <= ExpectedTotalCost(ProjectToSupplierBox(initial_guess))

C9_Witness ==
    /\ cost_history # <<>>
    /\ ~InvalidRecord
    /\ ~InSupplierBox(initial_guess)
    /\ cost_history[Len(cost_history)] > ExpectedTotalCost(initial_guess)

(* C10: the returned minimum cost is the objective, at the default rates, at
   the returned coordinates, and the last entry of a non-empty history. *)
C10_ResultConsistent ==
    pc = "returned" =>
        /\ ret.optimal_cost = ExpectedTotalCost(ret.optimal_coords)
        /\ ret.cost_history # <<>> =>
               ret.optimal_cost = ret.cost_history[Len(ret.cost_history)]

C10_Witness ==
    /\ pc = "returned"
    /\ Len(ret.cost_history) >= 2

====
